---- MODULE Spec2Model ----
(***************************************************************************)
(* Model of virtualizor.py (enovance/infra-virt): the run of main() against *)
(* a libvirt control plane and a remote executor.                          *)
(*                                                                         *)
(* Names (prefixes, hostnames, network and domain names, paths, sizes) are *)
(* sequences of one-character strings, so that "%s_%s" formatting, sorted()*)
(* and the regular expressions of the source are computed, not assumed.    *)
(***************************************************************************)
EXTENDS Integers, Sequences, FiniteSets, TLC

VARIABLES
    conf,                 \* parsed command line: replace, prefix, public_network
    hosts,                \* hosts_definition['hosts']: hostname -> definition
    networks,             \* control plane: network name -> state
    domains,              \* control plane: domain name -> state
    leases,               \* control plane: DHCP lease records of the public network
    public_macs,          \* control plane: domain name -> MAC of its NIC on the public network
    cmdCount,             \* remote executor: number of commands run so far
    pc,                   \* position of main()
    install_server_info,  \* main: get_profile_info(..., "install-server")
    gateway_info,         \* main: get_profile_info(..., "gateway")
    existing_networks,    \* create_networks: names listed at line 109
    net_exists,           \* create_networks: local 'exists'
    existing_hosts,       \* main: names listed at line 564
    todo,                 \* main: rest of the iteration over sorted(hosts)
    hostname,             \* main: loop variable
    exists,               \* main: local 'exists'
    meta,                 \* Host.meta of the host under construction: nics, disks
    ips,                  \* main: addresses returned by the two lease waits
    ops                   \* history: every control-plane request and remote command issued

vars == <<conf, hosts, networks, domains, leases, public_macs, cmdCount, pc,
          install_server_info, gateway_info, existing_networks, net_exists,
          existing_hosts, todo, hostname, exists, meta, ips, ops>>

-----------------------------------------------------------------------------
(* Bounds *)

MaxExisting == 1      \* domains of the topology already defined before the run
MaxSizeLen == 4       \* length of the size strings given to canical_size
MaxPrefixLen == 2     \* length of the values given to --prefix
MaxNameLen == 2       \* length of the logical names of another deployment

-----------------------------------------------------------------------------
(* Characters and strings *)

\* code points of the characters used in names (Python 2 str ordering)
Ascii(c) ==
    CASE c = "-" -> 45 [] c = "0" -> 48 [] c = "1" -> 49 [] c = "2" -> 50
      [] c = "5" -> 53 [] c = "G" -> 71 [] c = "M" -> 77 [] c = "_" -> 95
      [] c = "a" -> 97 [] c = "b" -> 98 [] c = "i" -> 105 [] c = "n" -> 110
      [] c = "p" -> 112 [] c = "q" -> 113 [] c = "s" -> 115
      [] OTHER -> 0

Digits == {"0", "1", "2", "5"}

RECURSIVE StrLess(_, _)
\* s < t for Python 2 byte strings
StrLess(s, t) ==
    IF s = <<>> THEN t # <<>>
    ELSE IF t = <<>> THEN FALSE
    ELSE IF Ascii(Head(s)) # Ascii(Head(t)) THEN Ascii(Head(s)) < Ascii(Head(t))
    ELSE StrLess(Tail(s), Tail(t))

RECURSIVE Sorted_reversed(_)
\* mutant: the hosts in descending order
Sorted_reversed(S) ==
    IF S = {} THEN <<>>
    ELSE LET m == CHOOSE x \in S : \A y \in S \ {x} : StrLess(y, x)
         IN  <<m>> \o Sorted_reversed(S \ {m})

RECURSIVE Sorted(_)
\* sorted(S) for a set of strings
Sorted(S) ==
    IF S = {} THEN <<>>
    ELSE LET m == CHOOSE x \in S : \A y \in S \ {x} : StrLess(x, y)
         IN  <<m>> \o Sorted(S \ {m})

\* "%s_%s" % (conf.prefix, hostname)
Namespaced(prefix, name) == prefix \o <<"_">> \o name

\* "%s_sps" % conf.prefix
PrivateNetName(prefix) == prefix \o <<"_", "s", "p", "s">>

RECURSIVE DigitsPrefixLen(_)
\* length of the longest prefix matching \d+
DigitsPrefixLen(s) ==
    IF s = <<>> \/ Head(s) \notin Digits THEN 0 ELSE 1 + DigitsPrefixLen(Tail(s))

RECURSIVE StripZeros(_)
\* the decimal digits of int(s), s a nonempty digit string
StripZeros(s) ==
    IF Len(s) > 1 /\ Head(s) = "0" THEN StripZeros(Tail(s)) ELSE s

\* mutant: the pattern is anchored at the end, '^(\d+)Gi$'
canical_size_anchored(size) ==
    LET n  == DigitsPrefixLen(size)
        gi == n >= 1 /\ Len(size) = n + 2 /\ size[n + 1] = "G" /\ size[n + 2] = "i"
        v  == StripZeros(SubSeq(size, 1, n))
    IN  IF gi
        THEN IF v = <<"0">> THEN v
             ELSE v \o <<"0", "0", "0", "0", "0", "0", "0", "0", "0">>
        ELSE size

canical_size(size) ==
    LET n  == DigitsPrefixLen(size)
        gi == n >= 1 /\ Len(size) >= n + 2 /\ size[n + 1] = "G" /\ size[n + 2] = "i"
        v  == StripZeros(SubSeq(size, 1, n))
    IN  IF gi
        THEN IF v = <<"0">> THEN v
             ELSE v \o <<"0", "0", "0", "0", "0", "0", "0", "0", "0">>
        ELSE size

-----------------------------------------------------------------------------
(* libvirt: the control plane *)

VIR_DOMAIN_NOSTATE == 0
VIR_DOMAIN_RUNNING == 1
VIR_DOMAIN_BLOCKED == 2
VIR_DOMAIN_PAUSED == 3
VIR_DOMAIN_SHUTDOWN == 4
VIR_DOMAIN_SHUTOFF == 5
VIR_DOMAIN_CRASHED == 6
VIR_DOMAIN_PMSUSPENDED == 7

DomainStates == VIR_DOMAIN_NOSTATE .. VIR_DOMAIN_PMSUSPENDED
Undefined == 0 - 1       \* no domain of that name

\* network states: no such network; defined and stopped; defined and
\* running; running without a persistent definition (networkCreateXML)
NetworkStates == {"absent", "inactive", "active", "transient"}

isActive(state) == state \in {"active", "transient"}

\* virNetworkDestroy of a running network
AfterNetworkDestroy(state) == IF state = "transient" THEN "absent" ELSE "inactive"

-----------------------------------------------------------------------------
(* Inputs *)

\* a NIC entry without 'mac' key
NoMac == 0

\* the values random_mac() may return
MacPool == {1, 2}

Nic(mac, ip) == [mac |-> mac, ip |-> ip]
Disk(image, size) == [image |-> image, size |-> size]

Size10Gi == <<"1", "0", "G", "i">>
Size512M == <<"5", "1", "2", "M">>

HostA == <<"a">>
HostAB == <<"a", "b">>
HostB == <<"b">>

\* three hosts: a router without base image, a plain node, an install-server;
\* the router sorts before the install-server
Topology1 ==
    (HostA  :> [profile |-> "gateway",
                nics |-> <<Nic(NoMac, "10.0.0.2")>>,
                disks |-> <<Disk("", Size512M)>>])
 @@ (HostAB :> [profile |-> "",
                nics |-> <<Nic(2, "")>>,
                disks |-> <<Disk("openstack-full.qcow2", Size10Gi)>>])
 @@ (HostB  :> [profile |-> "install-server",
                nics |-> <<Nic(1, "10.0.0.1")>>,
                disks |-> <<Disk("install-server.qcow2", Size10Gi), Disk("", Size10Gi)>>])

\* two hosts, none of them a gateway
Topology2 ==
    (HostAB :> [profile |-> "install-server",
                nics |-> <<Nic(1, "10.0.0.1")>>,
                disks |-> <<Disk("install-server.qcow2", Size10Gi)>>])
 @@ (HostB  :> [profile |-> "",
                nics |-> <<Nic(NoMac, "")>>,
                disks |-> <<Disk("", Size10Gi), Disk("", Size512M), Disk("", Size512M)>>])

Topologies == {Topology1, Topology2}

Prefixes == {<<"p">>}
PublicNetworks == {<<"n", "a", "t">>, <<"p", "_", "s", "p", "s">>}

\* the address the DHCP server of the public network leases to a MAC: one
\* address of the range 192.168.140.2-254 per MAC
AddressOf(mac) == <<"192.168.140.", 1 + mac>>

-----------------------------------------------------------------------------
(* History of external calls *)

\* a control-plane request; rc = 1 when the control plane raised libvirtError
CtlOp(kind, name, desc, rc) ==
    [kind |-> kind, name |-> name, desc |-> desc,
     path |-> <<>>, size |-> <<>>, image |-> "", rc |-> rc]

\* a remote command (ssh) or copy (scp) and its exit status
CmdOp(kind, name, path, size, image, rc) ==
    [kind |-> kind, name |-> name, desc |-> "",
     path |-> path, size |-> size, image |-> image, rc |-> rc]

NetworkKinds == {"networkCreateXML", "network.create", "network.destroy"}
DomainKinds == {"domain.destroy", "domain.undefine", "defineXML", "domain.create"}
DiskKinds == {"qemu-img create", "qemu-img resize"}
SeedKinds == {"mkdir", "scp", "truncate", "mkfs.vfat", "mcopy", "qemu-img convert", "rm"}
CommandKinds == DiskKinds \cup SeedKinds
HostKinds == DomainKinds \cup CommandKinds

\* the remote commands, by ordinal in the run, that may exit nonzero
FailingCommands == {1}

\* the exit statuses the n-th remote command of the run may return
ExitStatuses(n) == IF n \in FailingCommands THEN {0, 1} ELSE {0}

\* the exit statuses of k commands run after n others
ExitChoices(n, k) ==
    {rcs \in [1 .. k -> {0, 1}] : \A i \in 1 .. k : rcs[i] \in ExitStatuses(n + i)}

\* the commands as run: subprocess.call returns the status, which push and
\* call drop (lines 147-153)
Run(cmds, rcs) == [i \in 1 .. Len(cmds) |-> [cmds[i] EXCEPT !.rc = rcs[i]]]

-----------------------------------------------------------------------------
(* Initial state *)

NoInfo == [hostname |-> <<>>, mac |-> NoMac, ip |-> ""]
NoMeta == [nics |-> <<>>, disks |-> <<>>]

NetworkNames == PublicNetworks \cup {PrivateNetName(p) : p \in Prefixes}
DomainNames(hs, prefix) == {Namespaced(prefix, h) : h \in DOMAIN hs}

\* the MAC an earlier run of the program over the same topology gave the
\* public-network NIC of a domain it defined (lines 371-385): the MAC of the
\* first NIC of the entry, a value of random_mac() when the entry gives none
\* (line 545); no such NIC for a host that is neither install-server nor
\* gateway, NoMac for a name without domain
EarlierPublicMacs(definition, state) ==
    IF state = Undefined \/ definition.profile \notin {"install-server", "gateway"}
    THEN {NoMac}
    ELSE IF definition.nics[1].mac # NoMac THEN {definition.nics[1].mac}
    ELSE MacPool

Init ==
    /\ conf \in [replace : BOOLEAN, prefix : Prefixes, public_network : PublicNetworks]
    /\ hosts \in Topologies
    /\ networks \in [NetworkNames -> NetworkStates]
    /\ \A n \in NetworkNames :
          n \notin {conf.public_network, PrivateNetName(conf.prefix)}
              => networks[n] = "absent"
    \* a public network shared with other deployments is a persistent one, a
    \* private network left running by an earlier run is a transient one
    /\ conf.public_network # PrivateNetName(conf.prefix)
          => /\ networks[conf.public_network] # "transient"
             /\ networks[PrivateNetName(conf.prefix)] # "active"
    /\ domains \in [DomainNames(hosts, conf.prefix) -> {Undefined} \cup DomainStates]
    /\ Cardinality({d \in DOMAIN domains : domains[d] # Undefined}) <= MaxExisting
    /\ public_macs \in [DOMAIN domains -> {NoMac} \cup MacPool]
    /\ \A h \in DOMAIN hosts :
          public_macs[Namespaced(conf.prefix, h)]
              \in EarlierPublicMacs(hosts[h], domains[Namespaced(conf.prefix, h)])
    /\ leases = {}
    /\ cmdCount = 0
    /\ pc = "main_559"
    /\ install_server_info = NoInfo
    /\ gateway_info = NoInfo
    /\ existing_networks = {}
    /\ net_exists = FALSE
    /\ existing_hosts = {}
    /\ todo = <<>>
    /\ hostname = <<>>
    /\ exists = FALSE
    /\ meta = NoMeta
    /\ ips = <<>>
    /\ ops = <<>>

-----------------------------------------------------------------------------
(* get_profile_info *)

\* the definition the loop of get_profile_info ends on: the first host of the
\* requested profile in the dictionary's iteration order, which no code
\* fixes; the last host iterated when there is none
ProfileHosts(hs, profile) ==
    LET matching == {h \in DOMAIN hs : hs[h].profile = profile}
    IN  IF matching # {} THEN matching ELSE DOMAIN hs

\* the first NIC of the host has no static addressing: admin_nic_info['network']
\* (then 'netmask', 'ip') raises KeyError
ProfileKeyError(hs, h) == hs[h].nics[1].ip = ""

\* the record returned for host h; m is the value random_mac() returned
ProfileInfo(hs, h, m) ==
    LET admin_nic_info == hs[h].nics[1]
    IN  [hostname |-> h,
         mac |-> IF admin_nic_info.mac # NoMac THEN admin_nic_info.mac ELSE m,
         ip |-> admin_nic_info.ip]

\* main, lines 559-560
main_get_profile_info ==
    /\ pc = "main_559"
    /\ \E h1 \in ProfileHosts(hosts, "install-server"),
          h2 \in ProfileHosts(hosts, "gateway"),
          m1 \in MacPool, m2 \in MacPool :
          IF ProfileKeyError(hosts, h1) \/ ProfileKeyError(hosts, h2)
          THEN /\ pc' = "raised_542"
               /\ UNCHANGED <<install_server_info, gateway_info>>
          ELSE /\ install_server_info' = ProfileInfo(hosts, h1, m1)
               /\ gateway_info' = ProfileInfo(hosts, h2, m2)
               /\ pc' = "cn_109"
    /\ UNCHANGED <<conf, hosts, networks, domains, leases, public_macs, cmdCount,
                   existing_networks, net_exists, existing_hosts, todo,
                   hostname, exists, meta, ips, ops>>

-----------------------------------------------------------------------------
(* Hypervisor.create_networks *)

\* [n.name() for n in self.conn.listAllNetworks()]
listAllNetworks(nets) == {n \in DOMAIN nets : nets[n] # "absent"}

\* line 113
PublicMustCreate(public_network, existing) == public_network \notin existing

\* mutant: the public network is never activated
PublicMustActivate_never(state) == FALSE

\* line 123
PublicMustActivate(state) == ~isActive(state)

\* mutant: the private network is destroyed whether or not --replace is set
PrivateMustDestroy_always(ex, replace) == ex

\* line 129
PrivateMustDestroy(ex, replace) == ex /\ replace

\* line 133
PrivateMustCreate(ex) == ~ex

\* line 109
create_networks_list ==
    /\ pc = "cn_109"
    /\ existing_networks' = listAllNetworks(networks)
    /\ pc' = "cn_113"
    /\ UNCHANGED <<conf, hosts, networks, domains, leases, public_macs, cmdCount,
                   install_server_info, gateway_info, net_exists,
                   existing_hosts, todo, hostname, exists, meta, ips, ops>>

\* lines 113-120: submit the NAT descriptor of the public network
create_networks_public ==
    /\ pc = "cn_113"
    /\ LET name == conf.public_network
       IN  IF PublicMustCreate(name, existing_networks)
           THEN IF networks[name] = "absent"
                THEN /\ networks' = [networks EXCEPT ![name] = "transient"]
                     /\ ops' = Append(ops, CtlOp("networkCreateXML", name, "nat", 0))
                     /\ pc' = "cn_121"
                ELSE /\ ops' = Append(ops, CtlOp("networkCreateXML", name, "nat", 1))
                     /\ pc' = "raised_120"
                     /\ UNCHANGED networks
           ELSE /\ pc' = "cn_121"
                /\ UNCHANGED <<networks, ops>>
    /\ UNCHANGED <<conf, hosts, domains, leases, public_macs, cmdCount,
                   install_server_info, gateway_info, existing_networks,
                   net_exists, existing_hosts, todo, hostname, exists, meta, ips>>

\* lines 121-124: look the public network up and activate it
create_networks_activate ==
    /\ pc = "cn_121"
    /\ LET name == conf.public_network
       IN  IF networks[name] = "absent"
           THEN /\ pc' = "raised_121"
                /\ UNCHANGED <<networks, ops>>
           ELSE IF PublicMustActivate(networks[name])
           THEN /\ networks' = [networks EXCEPT ![name] = "active"]
                /\ ops' = Append(ops, CtlOp("network.create", name, "", 0))
                /\ pc' = "cn_128"
           ELSE /\ pc' = "cn_128"
                /\ UNCHANGED <<networks, ops>>
    /\ UNCHANGED <<conf, hosts, domains, leases, public_macs, cmdCount,
                   install_server_info, gateway_info, existing_networks,
                   net_exists, existing_hosts, todo, hostname, exists, meta, ips>>

\* lines 126-132: the private network exists and --replace: destroy it
create_networks_destroy ==
    /\ pc = "cn_128"
    /\ LET netname == PrivateNetName(conf.prefix)
           ex == netname \in existing_networks
       IN  IF PrivateMustDestroy(ex, conf.replace)
           THEN IF isActive(networks[netname])
                THEN /\ networks' = [networks EXCEPT
                                       ![netname] = AfterNetworkDestroy(networks[netname])]
                     /\ ops' = Append(ops, CtlOp("network.destroy", netname, "", 0))
                     /\ net_exists' = FALSE
                     /\ pc' = "cn_133"
                ELSE /\ ops' = Append(ops, CtlOp("network.destroy", netname, "", 1))
                     /\ pc' = "raised_130"
                     /\ UNCHANGED <<networks, net_exists>>
           ELSE /\ net_exists' = ex
                /\ pc' = "cn_133"
                /\ UNCHANGED <<networks, ops>>
    /\ UNCHANGED <<conf, hosts, domains, leases, public_macs, cmdCount,
                   install_server_info, gateway_info, existing_networks,
                   existing_hosts, todo, hostname, exists, meta, ips>>

\* lines 133-138: submit the descriptor of the private network, then look
\* the public network up again
create_networks_private ==
    /\ pc = "cn_133"
    /\ LET netname == PrivateNetName(conf.prefix)
       IN  IF PrivateMustCreate(net_exists)
           THEN IF networks[netname] = "absent"
                THEN /\ networks' = [networks EXCEPT ![netname] = "transient"]
                     /\ ops' = Append(ops, CtlOp("networkCreateXML", netname, "plain", 0))
                     /\ pc' = "main_563"
                ELSE /\ ops' = Append(ops, CtlOp("networkCreateXML", netname, "plain", 1))
                     /\ pc' = "raised_136"
                     /\ UNCHANGED networks
           ELSE /\ pc' = "main_563"
                /\ UNCHANGED <<networks, ops>>
    /\ UNCHANGED <<conf, hosts, domains, leases, public_macs, cmdCount,
                   install_server_info, gateway_info, existing_networks,
                   net_exists, existing_hosts, todo, hostname, exists, meta, ips>>

-----------------------------------------------------------------------------
(* Host: paths, device names, NIC and disk registration *)

host_libvirt_image_dir == <<"/var/lib/libvirt/images">>

DigitChar(d) ==
    CASE d = 0 -> "0" [] d = 1 -> "1" [] d = 2 -> "2" [] d = 3 -> "3"
      [] d = 4 -> "4" [] d = 5 -> "5" [] d = 6 -> "6" [] d = 7 -> "7"
      [] d = 8 -> "8" [] OTHER -> "9"

\* mutant: "%d" % k, the number without padding
Fmt03_unpadded(k) == <<DigitChar(k)>>

\* "%03d" % k, for k < 1000
Fmt03(k) == <<DigitChar(k \div 100), DigitChar((k \div 10) % 10), DigitChar(k % 10)>>

ascii_lowercase ==
    <<"a", "b", "c", "d", "e", "f", "g", "h", "i", "j", "k", "l", "m",
      "n", "o", "p", "q", "r", "s", "t", "u", "v", "w", "x", "y", "z">>

\* Host.host_libvirt_image_dir + '/' + "%s-%03d.qcow2" % (hostname_with_prefix, disk_cpt)
DiskPath(ns, disk_cpt) ==
    host_libvirt_image_dir \o <<"/">> \o ns \o <<"-">> \o Fmt03(disk_cpt) \o <<".qcow2">>

\* mutant: one working directory for all the hosts
DataDir_shared(ns) == <<"/tmp/", "_data">>

\* "/tmp/%s_data" % self.hostname_with_prefix
DataDir(ns) == <<"/tmp/">> \o ns \o <<"_data">>

\* '%s/%s_cloud-init.qcow2' % (Host.host_libvirt_image_dir, hostname_with_prefix)
CloudInitImage(ns) == host_libvirt_image_dir \o <<"/">> \o ns \o <<"_cloud-init.qcow2">>

\* the NICs of the definition, with the public-network NIC appended for the
\* install-server and for the gateway (lines 371-385)
DefinitionNics(definition, public_network, is_info, gw_info) ==
    definition.nics
      \o (IF definition.profile = "install-server"
          THEN <<[mac |-> is_info.mac, ip |-> "", network_name |-> public_network]>>
          ELSE <<>>)
      \o (IF definition.profile = "gateway"
          THEN <<[mac |-> gw_info.mac, ip |-> "", network_name |-> public_network]>>
          ELSE <<>>)

\* Host.register_nic: the entry appended to meta['nics'] for the i-th NIC;
\* m is the value random_mac() returned; boot_order 0 stands for an entry
\* without 'boot_order' key
RegisteredNic(nic, i, prefix, m) ==
    [mac |-> IF nic.mac # NoMac THEN nic.mac ELSE m,
     name |-> <<"eth", DigitChar(i - 1)>>,
     network_name |-> IF "network_name" \in DOMAIN nic
                      THEN nic.network_name ELSE PrivateNetName(prefix),
     ip |-> nic.ip,
     boot_order |-> 0]

\* Host.initialize_disk: the remote commands for the disk at position disk_cpt
InitializeDiskOps(ns, disk_cpt, disk) ==
    IF disk.image # ""
    THEN <<CmdOp("qemu-img create", ns, DiskPath(ns, disk_cpt),
                 canical_size(disk.size), disk.image, 0),
           CmdOp("qemu-img resize", ns, DiskPath(ns, disk_cpt),
                 canical_size(disk.size), "", 0)>>
    ELSE <<CmdOp("qemu-img create", ns, DiskPath(ns, disk_cpt),
                 canical_size(disk.size), "", 0)>>

\* mutant: the name is built from self.disk_cpt, which stays 0 (line 363)
DeviceName_stale(disk_cpt) == <<"v", "d", ascii_lowercase[1]>>

\* 'vd' + string.ascii_lowercase[disk_cpt]
DeviceName(disk_cpt) == <<"v", "d", ascii_lowercase[disk_cpt + 1]>>

\* Host.initialize_disk then Host.register_disk: the entry appended to
\* meta['disks']; boot_order 0 stands for an entry without 'boot_order' key
RegisteredDisk(disk, path, disk_cpt) ==
    [image |-> disk.image, size |-> disk.size, path |-> path,
     name |-> DeviceName(disk_cpt),
     boot_order |-> 0]

\* mutant: the raw image is built in place of the converted one
TmpImage_in_place(image) == image

\* image + '.tmp', the intermediate raw image
TmpImage(image) == image \o <<".tmp">>

\* Host.create_cloud_init_image: the remote commands and copies
CloudInitOps(ns) ==
    LET data_dir == DataDir(ns)
        image == CloudInitImage(ns)
        tmp == TmpImage(image)
    IN  <<CmdOp("mkdir", ns, data_dir, <<>>, "", 0),
          CmdOp("scp", ns, data_dir \o <<"/", "meta-data">>, <<>>, "", 0),
          CmdOp("scp", ns, data_dir \o <<"/", "user-data">>, <<>>, "", 0),
          CmdOp("truncate", ns, tmp, <<"2", "M">>, "", 0),
          CmdOp("mkfs.vfat", ns, tmp, <<>>, "", 0),
          CmdOp("mcopy", ns, tmp, <<>>, "", 0),
          CmdOp("qemu-img convert", ns, image, <<>>, "", 0),
          CmdOp("rm", ns, tmp, <<>>, "", 0)>>

\* mutant: the loop over the disks stops after the first one
DisksDone_first(registered, definition) == registered >= 1

\* the loop of lines 392-394 has run out of disks
DisksDone(registered, definition) == registered = Len(definition.disks)

\* mutant: a seed image for every host
NeedsCloudInit_always(definition) == TRUE

\* line 395
NeedsCloudInit(definition) == definition.disks[1].image # ""

\* the MAC the rendered descriptor gives the NIC on the public network: the
\* NIC appended last for an install-server or a gateway (lines 203-214), no
\* such NIC for another host
PublicNicMac(m, definition) ==
    IF definition.profile \in {"install-server", "gateway"}
    THEN m.nics[Len(m.nics)].mac
    ELSE NoMac

\* mutant: the NIC boot order goes to the last NIC registered
WithBootOrder_last_nic(m) ==
    [nics |-> [m.nics EXCEPT ![Len(m.nics)].boot_order = 2],
     disks |-> [m.disks EXCEPT ![1].boot_order = 1]]

\* lines 399-400
WithBootOrder(m) ==
    [nics |-> [m.nics EXCEPT ![1].boot_order = 2],
     disks |-> [m.disks EXCEPT ![1].boot_order = 1]]

-----------------------------------------------------------------------------
(* main: the host loop *)

listAllDomains(doms) == {d \in DOMAIN doms : doms[d] # Undefined}

\* line 570
HostExists(ns, existing) == ns \in existing

\* line 571
MustReplace(ex, replace) == ex /\ replace

\* lines 573-574
MustStop(state) == state \in {VIR_DOMAIN_RUNNING, VIR_DOMAIN_PAUSED}

\* line 576
MustUndefine(state) == state \in {VIR_DOMAIN_SHUTOFF}

\* mutant: the host is created whether or not it exists
MustCreate_always(ex) == TRUE

\* line 579
MustCreate(ex) == ~ex

\* the iteration 'for hostname in sorted(hosts)'
HostOrder(hs) == Sorted(DOMAIN hs)

\* mutant: the loop ends one host early
LoopDone_early(rest) == Len(rest) <= 1

\* the for loop of line 565 has run out of hosts
LoopDone(rest) == rest = <<>>

\* mutant: the new domain is not started
StartOps_none(ns) == <<>>

\* lines 583-584: dom.create() on the domain looked up by name
StartOps(ns) == <<CtlOp("domain.create", ns, "", 0)>>

\* lines 563-564
main_list_domains ==
    /\ pc = "main_563"
    /\ existing_hosts' = listAllDomains(domains)
    /\ todo' = HostOrder(hosts)
    /\ pc' = "main_565"
    /\ UNCHANGED <<conf, hosts, networks, domains, leases, public_macs, cmdCount,
                   install_server_info, gateway_info, existing_networks,
                   net_exists, hostname, exists, meta, ips, ops>>

\* lines 565-571: next host of the loop, or the end of the loop
main_next_host ==
    /\ pc = "main_565"
    /\ IF LoopDone(todo)
       THEN /\ pc' = "main_591"
            /\ UNCHANGED <<todo, hostname, exists>>
       ELSE LET ex == HostExists(Namespaced(conf.prefix, Head(todo)), existing_hosts)
            IN  /\ hostname' = Head(todo)
                /\ todo' = Tail(todo)
                /\ exists' = ex
                /\ pc' = IF MustReplace(ex, conf.replace) THEN "main_572" ELSE "main_579"
    /\ UNCHANGED <<conf, hosts, networks, domains, leases, public_macs, cmdCount,
                   install_server_info, gateway_info, existing_networks,
                   net_exists, existing_hosts, meta, ips, ops>>

\* lines 572-575: stop the old domain
main_replace_stop ==
    /\ pc = "main_572"
    /\ LET ns == Namespaced(conf.prefix, hostname)
       IN  IF MustStop(domains[ns])
           THEN /\ domains' = [domains EXCEPT ![ns] = VIR_DOMAIN_SHUTOFF]
                /\ ops' = Append(ops, CtlOp("domain.destroy", ns, "", 0))
           ELSE UNCHANGED <<domains, ops>>
    /\ pc' = "main_576"
    /\ UNCHANGED <<conf, hosts, networks, leases, public_macs, cmdCount,
                   install_server_info, gateway_info, existing_networks,
                   net_exists, existing_hosts, todo, hostname, exists, meta, ips>>

\* lines 576-578: remove the old definition
main_replace_undefine ==
    /\ pc = "main_576"
    /\ LET ns == Namespaced(conf.prefix, hostname)
       IN  IF MustUndefine(domains[ns])
           THEN /\ domains' = [domains EXCEPT ![ns] = Undefined]
                /\ public_macs' = [public_macs EXCEPT ![ns] = NoMac]
                /\ ops' = Append(ops, CtlOp("domain.undefine", ns, "", 0))
           ELSE UNCHANGED <<domains, public_macs, ops>>
    /\ exists' = FALSE
    /\ pc' = "main_579"
    /\ UNCHANGED <<conf, hosts, networks, leases, cmdCount,
                   install_server_info, gateway_info, existing_networks,
                   net_exists, existing_hosts, todo, hostname, meta, ips>>

\* lines 585-587: the host is already defined, skipping
main_skip ==
    /\ pc = "main_579"
    /\ ~MustCreate(exists)
    /\ pc' = "main_565"
    /\ UNCHANGED <<conf, hosts, networks, domains, leases, public_macs, cmdCount,
                   install_server_info, gateway_info, existing_networks,
                   net_exists, existing_hosts, todo, hostname, exists, meta, ips, ops>>

\* line 580, Host.__init__ lines 356-391: a fresh meta, the NICs registered
host_init_nics ==
    /\ pc = "main_579"
    /\ MustCreate(exists)
    /\ LET nics == DefinitionNics(hosts[hostname], conf.public_network,
                                  install_server_info, gateway_info)
       IN  \E m \in [1 .. Len(nics) -> MacPool] :
              meta' = [nics |-> [i \in 1 .. Len(nics) |->
                                   RegisteredNic(nics[i], i, conf.prefix, m[i])],
                       disks |-> <<>>]
    /\ pc' = "host_392"
    /\ UNCHANGED <<conf, hosts, networks, domains, leases, public_macs, cmdCount,
                   install_server_info, gateway_info, existing_networks,
                   net_exists, existing_hosts, todo, hostname, exists,
                   ips, ops>>

\* Host.__init__ lines 392-394: initialize_disk and register_disk of one disk
host_init_disk ==
    /\ pc = "host_392"
    /\ LET ns == Namespaced(conf.prefix, hostname)
           disk_cpt == Len(meta.disks)
           disk == hosts[hostname].disks[disk_cpt + 1]
           cmds == InitializeDiskOps(ns, disk_cpt, disk)
       IN  /\ \E rcs \in ExitChoices(cmdCount, Len(cmds)) : ops' = ops \o Run(cmds, rcs)
           /\ cmdCount' = cmdCount + Len(cmds)
           /\ meta' = [meta EXCEPT !.disks =
                          Append(@, RegisteredDisk(disk, DiskPath(ns, disk_cpt), disk_cpt))]
           /\ pc' = IF DisksDone(disk_cpt + 1, hosts[hostname])
                    THEN "host_395" ELSE "host_392"
    /\ UNCHANGED <<conf, hosts, networks, domains, leases, public_macs, install_server_info, gateway_info, existing_networks,
                   net_exists, existing_hosts, todo, hostname, exists, ips>>

\* Host.__init__ lines 395-400: the seed image, then the boot orders
host_init_cloud_init ==
    /\ pc = "host_395"
    /\ LET ns == Namespaced(conf.prefix, hostname)
           cmds == CloudInitOps(ns)
           disk_cpt == Len(meta.disks)
           seed == RegisteredDisk(Disk("", <<>>), CloudInitImage(ns), disk_cpt)
       IN  IF NeedsCloudInit(hosts[hostname])
           THEN /\ \E rcs \in ExitChoices(cmdCount, Len(cmds)) :
                      ops' = ops \o Run(cmds, rcs)
                /\ cmdCount' = cmdCount + Len(cmds)
                /\ meta' = WithBootOrder([meta EXCEPT !.disks = Append(@, seed)])
           ELSE /\ meta' = WithBootOrder(meta)
                /\ UNCHANGED <<ops, cmdCount>>
    /\ pc' = "main_582"
    /\ UNCHANGED <<conf, hosts, networks, domains, leases, public_macs, install_server_info, gateway_info, existing_networks,
                   net_exists, existing_hosts, todo, hostname, exists, ips>>

\* line 582: submit the domain descriptor
main_define ==
    /\ pc = "main_582"
    /\ LET ns == Namespaced(conf.prefix, hostname)
       IN  IF domains[ns] = Undefined
           THEN /\ domains' = [domains EXCEPT ![ns] = VIR_DOMAIN_SHUTOFF]
                /\ public_macs' = [public_macs EXCEPT
                                     ![ns] = PublicNicMac(meta, hosts[hostname])]
                /\ ops' = Append(ops, CtlOp("defineXML", ns, "", 0))
                /\ pc' = "main_583"
           ELSE /\ ops' = Append(ops, CtlOp("defineXML", ns, "", 1))
                /\ pc' = "raised_582"
                /\ UNCHANGED <<domains, public_macs>>
    /\ UNCHANGED <<conf, hosts, networks, leases, cmdCount,
                   install_server_info, gateway_info, existing_networks,
                   net_exists, existing_hosts, todo, hostname, exists, meta, ips>>

\* lines 583-584: look the new domain up and start it
main_start ==
    /\ pc = "main_583"
    /\ LET ns == Namespaced(conf.prefix, hostname)
       IN  /\ domains' = [domains EXCEPT ![ns] = VIR_DOMAIN_RUNNING]
           /\ ops' = ops \o StartOps(ns)
    /\ pc' = "main_565"
    /\ UNCHANGED <<conf, hosts, networks, leases, public_macs, cmdCount,
                   install_server_info, gateway_info, existing_networks,
                   net_exists, existing_hosts, todo, hostname, exists, meta, ips>>

-----------------------------------------------------------------------------
(* Hypervisor.wait_for_lease and the DHCP server *)

\* mutant: the first record of the table matches
LeaseMatches_any(lease, mac) == TRUE

\* mutant: no record of the table matches
LeaseMatches_none(lease, mac) == FALSE

\* line 143
LeaseMatches(lease, mac) == lease.mac = mac

\* one pass of the loop of wait_for_lease: return the address of a matching
\* record, or sleep
wait_for_lease(mac, return_pc) ==
    LET matching == {l \in leases : LeaseMatches(l, mac)}
    IN  IF matching # {}
        THEN /\ \E l \in matching : ips' = Append(ips, l.ipaddr)
             /\ pc' = return_pc
        ELSE UNCHANGED <<pc, ips>>

\* lines 589-592
main_wait_install_server ==
    /\ pc = "main_591"
    /\ wait_for_lease(install_server_info.mac, "main_598")
    /\ UNCHANGED <<conf, hosts, networks, domains, leases, public_macs, cmdCount,
                   install_server_info, gateway_info, existing_networks,
                   net_exists, existing_hosts, todo, hostname, exists, meta, ops>>

\* lines 596-601
main_wait_gateway ==
    /\ pc = "main_598"
    /\ wait_for_lease(gateway_info.mac, "done")
    /\ UNCHANGED <<conf, hosts, networks, domains, leases, public_macs, cmdCount,
                   install_server_info, gateway_info, existing_networks,
                   net_exists, existing_hosts, todo, hostname, exists, meta, ops>>

\* the DHCP server of the public network records a lease, one per MAC; the
\* run reads the table in the waits only, so the leases recorded earlier
\* are those recorded before the first poll
dhcp_grant ==
    /\ pc \in {"main_591", "main_598"}
    /\ \E mac \in MacPool :
          /\ \A l \in leases : l.mac # mac
          /\ leases' = leases \cup {[mac |-> mac, ipaddr |-> AddressOf(mac)]}
    /\ UNCHANGED <<conf, hosts, networks, domains, public_macs, cmdCount, pc,
                   install_server_info, gateway_info, existing_networks,
                   net_exists, existing_hosts, todo, hostname, exists, meta, ips, ops>>

-----------------------------------------------------------------------------

Next ==
    \/ main_get_profile_info
    \/ create_networks_list
    \/ create_networks_public
    \/ create_networks_activate
    \/ create_networks_destroy
    \/ create_networks_private
    \/ main_list_domains
    \/ main_next_host
    \/ main_replace_stop
    \/ main_replace_undefine
    \/ main_skip
    \/ host_init_nics
    \/ host_init_disk
    \/ host_init_cloud_init
    \/ main_define
    \/ main_start
    \/ main_wait_install_server
    \/ main_wait_gateway
    \/ dhcp_grant

Spec == Init /\ [][Next]_vars

-----------------------------------------------------------------------------
(* Vocabulary of the properties *)

NetworkPcs == {"cn_109", "cn_113", "cn_121", "cn_128", "cn_133"}
LoopPcs == {"main_563", "main_565", "main_572", "main_576", "main_579",
            "host_392", "host_395", "main_582", "main_583"}
LeasePcs == {"main_591", "main_598", "done"}

\* network reconciliation has returned
NetworksReconciled == pc \in LoopPcs \cup LeasePcs \cup {"raised_582"}

\* positions in the history of the requests of one kind on one name
KindIdx(kind, name) == {i \in DOMAIN ops : ops[i].kind = kind /\ ops[i].name = name}

\* positions in the history of the host operations on one namespaced name
HostIdx(ns) == {i \in DOMAIN ops : ops[i].kind \in HostKinds /\ ops[i].name = ns}

\* positions of the disk commands, seed commands and definitions on one name
CreationIdx(ns) ==
    {i \in DOMAIN ops : ops[i].kind \in CommandKinds \cup {"defineXML"} /\ ops[i].name = ns}

AllHostIdx == {i \in DOMAIN ops : ops[i].kind \in HostKinds}
AllNetworkIdx == {i \in DOMAIN ops : ops[i].kind \in NetworkKinds}

IsHostOp(op) == op.kind \in HostKinds
IsNetworkOrHostOp(op) == op.kind \in NetworkKinds \cup HostKinds

\* the logical hostname a namespaced name stands for
HostOf(ns) == CHOOSE h \in DOMAIN hosts : Namespaced(conf.prefix, h) = ns

\* the host was found defined at line 564 and the run has no --replace
LeftUntouched(h) == Namespaced(conf.prefix, h) \in existing_hosts /\ ~conf.replace

\* the loop of main is through with host h
Reconciled(h) ==
    /\ pc \in (LoopPcs \ {"main_563"}) \cup LeasePcs \cup {"raised_582"}
    /\ \A i \in DOMAIN todo : todo[i] # h
    /\ h = hostname => pc \in {"main_565"} \cup LeasePcs

-----------------------------------------------------------------------------
(* C1 *)

\* C1: without --replace, a host whose namespaced domain name is in the
\* domain list read at line 564 gets no disk or seed command, no domain
\* definition, and no stop, undefine or start of its domain.
C1_LeftUntouched ==
    \A h \in DOMAIN hosts :
        LeftUntouched(h) => HostIdx(Namespaced(conf.prefix, h)) = {}

\* an existing host has been skipped in a run that created another one
C1_Witness ==
    /\ pc = "main_591"
    /\ \E h \in DOMAIN hosts : LeftUntouched(h)
    /\ AllHostIdx # {}

-----------------------------------------------------------------------------
(* C2 *)

\* C2: under --replace, once a host whose domain existed gets its first disk
\* command, seed command or definition, exactly one undefine of the old
\* domain has been issued before it, preceded by at most one stop.
C2_StopUndefineOnce ==
    \A h \in DOMAIN hosts :
        LET ns == Namespaced(conf.prefix, h)
        IN  (conf.replace /\ ns \in existing_hosts /\ CreationIdx(ns) # {}) =>
                /\ Cardinality(KindIdx("domain.undefine", ns)) = 1
                /\ Cardinality(KindIdx("domain.destroy", ns)) <= 1
                /\ \A u \in KindIdx("domain.undefine", ns) :
                      /\ \A c \in CreationIdx(ns) : u < c
                      /\ \A d \in KindIdx("domain.destroy", ns) : d < u

-----------------------------------------------------------------------------
(* C3 *)

\* C3: network reconciliation never destroys the public network, and it
\* submits a descriptor under the public network's name only when that name
\* is not in the network list read at line 109.
C3_PublicNeverDestroyed ==
    /\ KindIdx("network.destroy", conf.public_network) = {}
    /\ KindIdx("networkCreateXML", conf.public_network) # {}
          => conf.public_network \notin existing_networks

-----------------------------------------------------------------------------
(* C4 *)

\* positions of the creations of the private network (line 136)
PrivateCreateIdx ==
    {i \in KindIdx("networkCreateXML", PrivateNetName(conf.prefix)) : ops[i].desc = "plain"}

\* C4: when network reconciliation has returned, the private network was
\* destroyed once and then created once if it was listed and --replace is
\* set, created once and not destroyed if it was not listed, and neither
\* destroyed nor created if it was listed and --replace is not set.
C4_PrivateNetwork ==
    NetworksReconciled =>
        LET netname == PrivateNetName(conf.prefix)
            listed == netname \in existing_networks
            destroyed == KindIdx("network.destroy", netname)
            created == PrivateCreateIdx
        IN  /\ (listed /\ conf.replace) =>
                  /\ Cardinality(destroyed) = 1
                  /\ Cardinality(created) = 1
                  /\ \A d \in destroyed, c \in created : d < c
            /\ ~listed => destroyed = {} /\ Cardinality(created) = 1
            /\ (listed /\ ~conf.replace) => destroyed = {} /\ created = {}

\* the private network has been destroyed and created again
C4_Witness ==
    /\ NetworksReconciled
    /\ conf.replace
    /\ KindIdx("network.destroy", PrivateNetName(conf.prefix)) # {}
    /\ PrivateCreateIdx # {}

-----------------------------------------------------------------------------
(* C5 *)

\* C5: no network request follows a host operation, so that every host
\* operation is issued after every network request; and when a host
\* operation has been issued the public network is active and the private
\* network exists.
C5_NetworksBeforeHosts ==
    /\ LET both == SelectSeq(ops, IsNetworkOrHostOp)
       IN  \A i \in 1 .. Len(both) - 1 :
               ~(both[i].kind \in HostKinds /\ both[i + 1].kind \in NetworkKinds)
    /\ AllHostIdx # {} =>
          /\ isActive(networks[conf.public_network])
          /\ networks[PrivateNetName(conf.prefix)] # "absent"

\* a host operation follows the activation of a public network found stopped
C5_Witness ==
    /\ AllHostIdx # {}
    /\ KindIdx("network.create", conf.public_network) # {}

-----------------------------------------------------------------------------
(* C6 *)

\* C6: under --replace, when the private network has just been destroyed or
\* created again, no domain of the topology that existed before the run is
\* still defined.
C6_CleanupBeforeNetworks ==
    (/\ conf.replace
     /\ pc \in {"cn_133", "main_563"}
     /\ KindIdx("network.destroy", PrivateNetName(conf.prefix)) # {})
        => \A d \in DOMAIN domains : domains[d] = Undefined

-----------------------------------------------------------------------------
(* C7 *)

\* C7: the host operations appear in the history in lexicographic order of
\* hostname: each host operation is followed by an operation of the same
\* host or of a host that sorts after it, so that every operation of a host
\* precedes every operation of the hosts after it.
C7_HostsInOrder ==
    LET hostOps == SelectSeq(ops, IsHostOp)
    IN  \A i \in 1 .. Len(hostOps) - 1 :
            \/ hostOps[i].name = hostOps[i + 1].name
            \/ StrLess(HostOf(hostOps[i].name), HostOf(hostOps[i + 1].name))

\* operations of three hosts have been issued
C7_Witness ==
    /\ Cardinality({ops[i].name : i \in AllHostIdx}) >= 3
    /\ pc = "done"

-----------------------------------------------------------------------------
(* C8 *)

DefineIdx == {i \in DOMAIN ops : ops[i].kind = "defineXML"}

\* C8: a domain is defined at most once and started at most once, the start
\* after the definition; a host the loop is through with has one definition
\* and one start unless it was left untouched; and when the loop ends the
\* definitions number the hosts less the hosts left untouched.
C8_OneDefinitionOneStart ==
    /\ \A h \in DOMAIN hosts :
          LET ns == Namespaced(conf.prefix, h)
              defined == KindIdx("defineXML", ns)
              started == KindIdx("domain.create", ns)
          IN  /\ Cardinality(defined) <= 1
              /\ Cardinality(started) <= 1
              /\ \A st \in started : \E d \in defined : d < st
              /\ (Reconciled(h) /\ ~LeftUntouched(h)) =>
                    Cardinality(defined) = 1 /\ Cardinality(started) = 1
    /\ pc \in LeasePcs =>
          Cardinality(DefineIdx) =
              Cardinality(DOMAIN hosts) - Cardinality({h \in DOMAIN hosts : LeftUntouched(h)})

\* the loop has ended with a host defined and started and another left untouched
C8_Witness ==
    /\ pc = "main_591"
    /\ DefineIdx # {}
    /\ \E h \in DOMAIN hosts : LeftUntouched(h)
    /\ \E h \in DOMAIN hosts :
          conf.replace = FALSE /\ KindIdx("domain.create", Namespaced(conf.prefix, h)) # {}

-----------------------------------------------------------------------------
(* C9 *)

\* if the wait at position at returns in this step, the table holds a
\* record of that MAC and the address returned is that record's
LeaseReturnStep(at, mac) ==
    (pc = at /\ pc' # at) =>
        \E l \in leases : l.mac = mac /\ ips' = Append(ips, l.ipaddr)

\* C9: a lease wait returns only when the lease table holds a record whose
\* MAC equals the queried MAC, and the address it returns is that record's.
C9_LeaseByMac ==
    [][LeaseReturnStep("main_591", install_server_info.mac)
         /\ LeaseReturnStep("main_598", gateway_info.mac)]_vars

\* both waits have returned while the table held a record of another MAC
C9_Witness ==
    /\ pc = "done"
    /\ \E l \in leases : l.mac # install_server_info.mac /\ l.mac # gateway_info.mac

-----------------------------------------------------------------------------
(* C10 *)

\* the host is defined and running, or was left untouched
HostReconciled(h) ==
    LET ns == Namespaced(conf.prefix, h)
    IN  IF LeftUntouched(h) THEN HostIdx(ns) = {}
        ELSE /\ KindIdx("defineXML", ns) # {}
             /\ KindIdx("domain.create", ns) # {}
             /\ domains[ns] = VIR_DOMAIN_RUNNING

\* a step taken once the first lease wait has begun
LeasePhaseStep ==
    pc \in LeasePcs =>
        (pc' \in LeasePcs /\ ops' = ops /\ networks' = networks /\ domains' = domains)

\* C10: the lease waits begin only when every host of the topology has been
\* reconciled, and from then on the run issues no network or host operation
\* and never goes back to an earlier phase.
C10_ForwardProgress ==
    /\ [](pc \in LeasePcs => \A h \in DOMAIN hosts : HostReconciled(h))
    /\ [][LeasePhaseStep]_vars

\* the first lease wait has begun after three hosts were defined and started
C10_Witness ==
    /\ pc = "main_591"
    /\ Cardinality(DefineIdx) >= 3

-----------------------------------------------------------------------------
(* C11 *)

\* the hosts that get a NIC on the public network (lines 371-385)
PublicNicHosts ==
    {h \in DOMAIN hosts : hosts[h].profile \in {"install-server", "gateway"}}

\* the hosts whose lease the run has asked for so far, in order of the calls
\* of wait_for_lease (lines 591 and 598)
LeaseWaits ==
    IF pc = "main_591" THEN <<install_server_info.hostname>>
    ELSE IF pc \in {"main_598", "done"}
         THEN <<install_server_info.hostname, gateway_info.hostname>>
         ELSE <<>>

IsPrefix(s, t) == Len(s) <= Len(t) /\ s = SubSeq(t, 1, Len(s))

\* the topology has a host of that profile
HasProfile(profile) == \E h \in DOMAIN hosts : hosts[h].profile = profile

\* C11: in a topology with an install-server and a gateway, the lease waits
\* issued so far are for the first hosts, in lexicographic order of hostname,
\* among the hosts with a NIC on the public network, one wait per host; and
\* when the run is done there is one for each of them.
C11_LeaseWaitsInHostOrder ==
    (HasProfile("install-server") /\ HasProfile("gateway")) =>
        /\ IsPrefix(LeaseWaits, Sorted(PublicNicHosts))
        /\ pc = "done" => Len(LeaseWaits) = Cardinality(PublicNicHosts)

-----------------------------------------------------------------------------
(* C12 *)

\* positions in the history of the remote commands that exited nonzero
FailedCommandIdx == {i \in DOMAIN ops : ops[i].kind \in CommandKinds /\ ops[i].rc # 0}

\* C12: after a remote disk or seed command that exited nonzero, the run
\* issues no remote command and submits no domain definition.
C12_NonzeroExitIsFatal ==
    \A i \in FailedCommandIdx :
        \A j \in DOMAIN ops :
            j > i => ops[j].kind \notin CommandKinds \cup {"defineXML"}

-----------------------------------------------------------------------------
(* C13 *)

\* the positions where an exception has left main
RaisedPcs == {"raised_542", "raised_120", "raised_121", "raised_130",
              "raised_136", "raised_582"}

\* positions in the history of the requests of one kind that succeeded
CreatedIdx(kind) == {i \in DOMAIN ops : ops[i].kind = kind /\ ops[i].rc = 0}

\* positions in the history of the commands that write a volume
VolumeIdx == {i \in DOMAIN ops : ops[i].kind \in {"qemu-img create", "qemu-img convert"}}

\* C13: when an exception has left main, every network the run created is
\* still there and the run has issued no destroy of it, every domain the run
\* defined is still defined and the run has issued no stop or undefine of it
\* since, and no volume the run wrote has been removed by the run.
C13_NoRollback ==
    pc \in RaisedPcs =>
        /\ \A i \in CreatedIdx("networkCreateXML") :
              /\ networks[ops[i].name] # "absent"
              /\ \A j \in KindIdx("network.destroy", ops[i].name) : j < i
        /\ \A i \in CreatedIdx("defineXML") :
              /\ domains[ops[i].name] # Undefined
              /\ \A j \in KindIdx("domain.destroy", ops[i].name)
                          \cup KindIdx("domain.undefine", ops[i].name) : j < i
        /\ \A i \in VolumeIdx :
              \A j \in DOMAIN ops : ~(ops[j].kind = "rm" /\ ops[j].path = ops[i].path)

\* a domain descriptor has been rejected after the run created a network,
\* built a seed image and defined a domain
C13_Witness ==
    /\ pc = "raised_582"
    /\ CreatedIdx("networkCreateXML") # {}
    /\ CreatedIdx("defineXML") # {}
    /\ \E i \in DOMAIN ops : ops[i].kind = "rm"

-----------------------------------------------------------------------------
(* C14: canical_size, applied by Host.initialize_disk to the sizes of a *)
(* topology on a hypervisor that holds nothing                          *)

SizeAlphabet == {"0", "1", "G", "i", "M"}

RECURSIVE StringsUpTo(_, _)
\* the strings over an alphabet of length at most n
StringsUpTo(alphabet, n) ==
    IF n = 0 THEN {<<>>}
    ELSE LET shorter == StringsUpTo(alphabet, n - 1)
         IN  shorter \cup {Append(s, c) : s \in shorter, c \in alphabet}

SizeStrings == StringsUpTo(SizeAlphabet, MaxSizeLen)

\* an install-server with an image-backed disk and a gateway with a blank
\* disk, both of the given size
SizeTopology(size) ==
    (HostA :> [profile |-> "install-server",
               nics |-> <<Nic(1, "10.0.0.1")>>,
               disks |-> <<Disk("install-server.qcow2", size)>>])
 @@ (HostB :> [profile |-> "gateway",
               nics |-> <<Nic(2, "10.0.0.2")>>,
               disks |-> <<Disk("", size)>>])

\* main has not started
NotStarted ==
    /\ leases = {}
    /\ cmdCount = 0
    /\ pc = "main_559"
    /\ install_server_info = NoInfo
    /\ gateway_info = NoInfo
    /\ existing_networks = {}
    /\ net_exists = FALSE
    /\ existing_hosts = {}
    /\ todo = <<>>
    /\ hostname = <<>>
    /\ exists = FALSE
    /\ meta = NoMeta
    /\ ips = <<>>
    /\ ops = <<>>

\* the hypervisor has no network and no domain
FreshHypervisor ==
    /\ networks = [n \in NetworkNames |-> "absent"]
    /\ domains = [d \in DomainNames(hosts, conf.prefix) |-> Undefined]
    /\ public_macs = [d \in DomainNames(hosts, conf.prefix) |-> NoMac]

SizeInit ==
    /\ conf = [replace |-> FALSE, prefix |-> <<"p">>, public_network |-> <<"n", "a", "t">>]
    /\ hosts \in {SizeTopology(size) : size \in SizeStrings}
    /\ FreshHypervisor
    /\ NotStarted

\* main up to the end of the host loop; no domain exists, so that the loop
\* neither replaces nor skips a host
LoopNext ==
    \/ main_get_profile_info
    \/ create_networks_list
    \/ create_networks_public
    \/ create_networks_activate
    \/ create_networks_destroy
    \/ create_networks_private
    \/ main_list_domains
    \/ main_next_host
    \/ host_init_nics
    \/ host_init_disk
    \/ host_init_cloud_init
    \/ main_define
    \/ main_start

SizeSpec == SizeInit /\ [][LoopNext]_vars

RECURSIVE IntOf(_)
\* the number a string of digits denotes
IntOf(s) ==
    IF s = <<>> THEN 0
    ELSE IntOf(SubSeq(s, 1, Len(s) - 1)) * 10 + (Ascii(s[Len(s)]) - Ascii("0"))

RECURSIVE Decimal(_)
\* the decimal string of a natural number
Decimal(n) ==
    IF n < 10 THEN <<DigitChar(n)>> ELSE Decimal(n \div 10) \o <<DigitChar(n % 10)>>

\* the decimal string of n * 10^9
TimesGiga(n) ==
    IF n = 0 THEN <<"0">>
    ELSE Decimal(n) \o <<"0", "0", "0", "0", "0", "0", "0", "0", "0">>

\* s is one or more digits followed by "Gi" and nothing else
IsDigitsGi(s) ==
    /\ Len(s) >= 3
    /\ \A i \in 1 .. Len(s) - 2 : s[i] \in Digits
    /\ s[Len(s) - 1] = "G"
    /\ s[Len(s)] = "i"

\* the lengths k such that the first k characters of s are digits and "Gi"
DigitsGiPrefixes(s) == {k \in 3 .. Len(s) : IsDigitsGi(SubSeq(s, 1, k))}

\* the size the claim gives: converted when the whole string is digits and "Gi"
SizeAsClaimed(s) ==
    IF IsDigitsGi(s) THEN TimesGiga(IntOf(SubSeq(s, 1, Len(s) - 2))) ELSE s

\* the size converted whenever the string starts with digits and "Gi"
SizeByPrefix(s) ==
    IF DigitsGiPrefixes(s) # {}
    THEN LET k == CHOOSE k \in DigitsGiPrefixes(s) : TRUE
         IN  TimesGiga(IntOf(SubSeq(s, 1, k - 2)))
    ELSE s

\* positions in the history of the disk commands for disk k of host h
DiskOpsOf(h, k) ==
    {i \in DOMAIN ops : /\ ops[i].kind \in DiskKinds
                        /\ ops[i].path = DiskPath(Namespaced(conf.prefix, h), k - 1)}

\* C14 as stated: every disk command carries the decimal string of n * 10^9
\* when the size of the disk is the digits n followed by "Gi" and nothing
\* else, and the size unchanged in every other case.
C14_SizeAsClaimed ==
    \A h \in DOMAIN hosts : \A k \in DOMAIN hosts[h].disks :
        \A i \in DiskOpsOf(h, k) : ops[i].size = SizeAsClaimed(hosts[h].disks[k].size)

\* C14 amended: every disk command carries the decimal string of n * 10^9
\* when the size of the disk starts with the digits n followed by "Gi",
\* whatever comes after, and the size unchanged in every other case.
C14_SizeByPrefix ==
    \A h \in DOMAIN hosts : \A k \in DOMAIN hosts[h].disks :
        \A i \in DiskOpsOf(h, k) : ops[i].size = SizeByPrefix(hosts[h].disks[k].size)

\* a disk command has been issued for a size that goes on after "Gi", and
\* it carries a converted size
C14_Witness ==
    \E h \in DOMAIN hosts : \E k \in DOMAIN hosts[h].disks :
        LET s == hosts[h].disks[k].size
        IN  /\ DigitsGiPrefixes(s) # {}
            /\ ~IsDigitsGi(s)
            /\ \E i \in DiskOpsOf(h, k) : ops[i].size # s

-----------------------------------------------------------------------------
(* C15: the names of a run, for the values of --prefix that check_prefix *)
(* accepts                                                                *)

ascii_uppercase ==
    <<"A", "B", "C", "D", "E", "F", "G", "H", "I", "J", "K", "L", "M",
      "N", "O", "P", "Q", "R", "S", "T", "U", "V", "W", "X", "Y", "Z">>

\* the characters of the class [a-zA-Z\d]
AlphaNumeric ==
    {ascii_lowercase[i] : i \in DOMAIN ascii_lowercase}
      \cup {ascii_uppercase[i] : i \in DOMAIN ascii_uppercase}
      \cup {DigitChar(d) : d \in 0 .. 9}

\* mutant: every value is accepted
check_prefix_any(value) == TRUE

\* re.match('^[a-zA-Z\d]+$', value): '$' matches at the end of the string
\* and before a newline that ends it
check_prefix(value) ==
    LET body == IF value # <<>> /\ value[Len(value)] = "\n"
                THEN SubSeq(value, 1, Len(value) - 1) ELSE value
    IN  /\ body # <<>>
        /\ \A i \in DOMAIN body : body[i] \in AlphaNumeric

PrefixAlphabet == {"p", "1", "_", "\n"}

\* the values of --prefix with which main runs: the others end in sys.exit(1)
AcceptedPrefixes == {v \in StringsUpTo(PrefixAlphabet, MaxPrefixLen) : check_prefix(v)}

\* the logical names a deployment may use
LogicalNames == StringsUpTo({"a", "_", "s", "p"}, MaxNameLen)

HostUA == <<"_", "a">>
HostAU == <<"a", "_">>

\* an install-server and a gateway of the given names, a blank disk each
NameTopology(n1, n2) ==
    (n1 :> [profile |-> "install-server",
            nics |-> <<Nic(1, "10.0.0.1")>>,
            disks |-> <<Disk("", Size512M)>>])
 @@ (n2 :> [profile |-> "gateway",
            nics |-> <<Nic(2, "10.0.0.2")>>,
            disks |-> <<Disk("", Size512M)>>])

NameInit ==
    /\ conf \in [replace : {FALSE}, prefix : AcceptedPrefixes,
                 public_network : {<<"n", "a", "t">>}]
    /\ hosts \in {NameTopology(n1, n2) : n1 \in {HostA, HostUA}, n2 \in {HostB, HostAU}}
    /\ networks = [n \in {conf.public_network, PrivateNetName(conf.prefix)} |-> "absent"]
    /\ domains = [d \in DomainNames(hosts, conf.prefix) |-> Undefined]
    /\ public_macs = [d \in DomainNames(hosts, conf.prefix) |-> NoMac]
    /\ NotStarted

NameSpec == NameInit /\ [][LoopNext]_vars

\* the logical names of the run: its hosts and its private network
OwnLogicalNames == DOMAIN hosts \cup {<<"s", "p", "s">>}

\* C15: every host operation is on prefix + "_" + hostname for a host of the
\* topology, and every network request but those on the public network is on
\* prefix + "_" + "sps"; no other logical name gives, under the prefix of the
\* run, the name of a resource of the run; and under another accepted prefix
\* no logical name gives the name of a resource of the run.
C15_Namespaced ==
    /\ \A i \in DOMAIN ops :
          /\ ops[i].kind \in HostKinds =>
                \E h \in DOMAIN hosts : ops[i].name = conf.prefix \o <<"_">> \o h
          /\ (ops[i].kind \in NetworkKinds /\ ops[i].name # conf.public_network) =>
                ops[i].name = conf.prefix \o <<"_">> \o <<"s", "p", "s">>
    /\ \A n1 \in OwnLogicalNames : \A n2 \in LogicalNames \ {n1} :
          Namespaced(conf.prefix, n1) # Namespaced(conf.prefix, n2)
    /\ \A q \in AcceptedPrefixes \ {conf.prefix} :
          \A n1 \in OwnLogicalNames : \A n2 \in LogicalNames :
              Namespaced(conf.prefix, n1) # Namespaced(q, n2)

\* the loop has ended, under a prefix that is the start of another accepted
\* prefix, after a host with an underscore in its name was defined
C15_Witness ==
    /\ pc = "main_591"
    /\ \E q \in AcceptedPrefixes : Len(q) > Len(conf.prefix) /\ IsPrefix(conf.prefix, q)
    /\ KindIdx("defineXML", Namespaced(conf.prefix, HostUA)) # {}
    /\ PrivateCreateIdx # {}

-----------------------------------------------------------------------------
(* C16 *)

\* what a remote command says: its kind, target path, size and base image
Shape(op) == [kind |-> op.kind, path |-> op.path, size |-> op.size, image |-> op.image]

\* the disk commands issued for one namespaced host, in order
DiskCommandsOf(ns) ==
    LET IsDiskOpOfHost(op) == op.kind \in DiskKinds /\ op.name = ns
        issued == SelectSeq(ops, IsDiskOpOfHost)
    IN  [i \in DOMAIN issued |-> Shape(issued[i])]

\* image_dir/<namespaced host>-<k as 3 digits>.qcow2, for k < 10
ProvisionedPath(ns, k) ==
    <<"/var/lib/libvirt/images", "/">> \o ns \o <<"-", "0", "0", DigitChar(k), ".qcow2">>

\* the commands provisioning the disk at 0-based position k
ProvisionCommands(ns, k, disk) ==
    LET path == ProvisionedPath(ns, k)
        size == SizeByPrefix(disk.size)
    IN  IF disk.image # ""
        THEN <<[kind |-> "qemu-img create", path |-> path, size |-> size, image |-> disk.image],
               [kind |-> "qemu-img resize", path |-> path, size |-> size, image |-> ""]>>
        ELSE <<[kind |-> "qemu-img create", path |-> path, size |-> size, image |-> ""]>>

RECURSIVE ProvisionCommandsUpTo(_, _, _)
\* the commands provisioning the first n disks
ProvisionCommandsUpTo(ns, disks, n) ==
    IF n = 0 THEN <<>>
    ELSE ProvisionCommandsUpTo(ns, disks, n - 1) \o ProvisionCommands(ns, n - 1, disks[n])

\* the number of regular disks of host h provisioned so far
Provisioned(h) ==
    IF h = hostname /\ pc = "host_392" THEN Len(meta.disks)
    ELSE IF CreationIdx(Namespaced(conf.prefix, h)) = {} THEN 0
         ELSE Len(hosts[h].disks)

\* C16: the disk commands issued for a host are, disk after disk in list
\* order, a create backed by the base image followed by a resize of the same
\* path when the disk has a base image, and one create of a blank volume
\* otherwise, each on image_dir/<namespaced host>-<position as 3 digits>.qcow2
\* at the normalized size; and that path is recorded on the disk record.
C16_DiskProvisioning ==
    /\ \A h \in DOMAIN hosts :
          DiskCommandsOf(Namespaced(conf.prefix, h)) =
              ProvisionCommandsUpTo(Namespaced(conf.prefix, h), hosts[h].disks, Provisioned(h))
    /\ pc \in {"host_392", "host_395", "main_582", "main_583"} =>
          \A k \in DOMAIN meta.disks :
              k <= Len(hosts[hostname].disks) =>
                  meta.disks[k].path = ProvisionedPath(Namespaced(conf.prefix, hostname), k - 1)

\* a host with an image-backed disk and a blank disk has been provisioned
C16_Witness ==
    /\ pc = "main_582"
    /\ Len(DiskCommandsOf(Namespaced(conf.prefix, hostname))) = 3
    /\ Len(hosts[hostname].disks) = 2

-----------------------------------------------------------------------------
(* C17 *)

\* positions in the history of the seed-image commands of one namespaced host
SeedIdx(ns) == {i \in DOMAIN ops : ops[i].kind \in SeedKinds /\ ops[i].name = ns}

\* the first disk entry of host h specifies a base image
FirstDiskHasImage(h) == hosts[h].disks[1].image # ""

\* the positions of the seed image in the disk list of the host under construction
SeedPositions ==
    {k \in DOMAIN meta.disks :
        meta.disks[k].path = <<"/var/lib/libvirt/images", "/">>
                                \o Namespaced(conf.prefix, hostname)
                                \o <<"_cloud-init.qcow2">>}

-----------------------------------------------------------------------------
(* C18 *)

\* positions in the history of the disk commands of one namespaced host
DiskIdx(ns) == {i \in DOMAIN ops : ops[i].kind \in DiskKinds /\ ops[i].name = ns}

-----------------------------------------------------------------------------
(* C19 *)

\* the seed-image commands and copies issued for one namespaced host, in order
SeedCommandsOf(ns) ==
    LET IsSeedOpOfHost(op) == op.kind \in SeedKinds /\ op.name = ns
        issued == SelectSeq(ops, IsSeedOpOfHost)
    IN  [i \in DOMAIN issued |-> [kind |-> issued[i].kind, path |-> issued[i].path,
                                  size |-> issued[i].size]]

\* the build of the seed image of one namespaced host
SeedBuild(ns) ==
    LET dir == <<"/tmp/">> \o ns \o <<"_data">>
        converted == <<"/var/lib/libvirt/images", "/">> \o ns \o <<"_cloud-init.qcow2">>
        raw == converted \o <<".tmp">>
    IN  <<[kind |-> "mkdir", path |-> dir, size |-> <<>>],
          [kind |-> "scp", path |-> dir \o <<"/", "meta-data">>, size |-> <<>>],
          [kind |-> "scp", path |-> dir \o <<"/", "user-data">>, size |-> <<>>],
          [kind |-> "truncate", path |-> raw, size |-> <<"2", "M">>],
          [kind |-> "mkfs.vfat", path |-> raw, size |-> <<>>],
          [kind |-> "mcopy", path |-> raw, size |-> <<>>],
          [kind |-> "qemu-img convert", path |-> converted, size |-> <<>>],
          [kind |-> "rm", path |-> raw, size |-> <<>>]>>

-----------------------------------------------------------------------------
(* C20 *)

\* the positions of main at which the disk list of a host is being built or
\* goes to the renderer
DiskListPcs == {"host_392", "host_395", "main_582", "main_583"}

\* the device names of the disk list of the host under construction
DeviceNames == [k \in DOMAIN meta.disks |-> meta.disks[k].name]

\* C20: the disk at position k of the disk list of a host (the regular disks
\* in input order, then the seed disk) has device name 'vd' followed by the
\* k-th lowercase letter, no two disks of the list have the same name, and a
\* list of 3 disks without seed image has the names vda, vdb, vdc.
C20_DeviceNames ==
    pc \in DiskListPcs =>
        /\ \A k \in DOMAIN meta.disks :
              /\ meta.disks[k].name = <<"v", "d", <<"a", "b", "c", "d">>[k]>>
              /\ k <= Len(hosts[hostname].disks) =>
                    /\ meta.disks[k].size = hosts[hostname].disks[k].size
                    /\ meta.disks[k].image = hosts[hostname].disks[k].image
        /\ \A j, k \in DOMAIN meta.disks : j # k => meta.disks[j].name # meta.disks[k].name
        /\ (Len(meta.disks) = 3 /\ SeedPositions = {}) =>
              DeviceNames = << <<"v", "d", "a">>, <<"v", "d", "b">>, <<"v", "d", "c">> >>

\* the record of a host with 3 disks and no seed image goes to the renderer
C20_Witness ==
    /\ pc = "main_582"
    /\ Len(meta.disks) = 3
    /\ SeedPositions = {}

-----------------------------------------------------------------------------
(* C21 *)

\* the host record is complete: Host.__init__ has returned and the record is
\* rendered at line 582
RenderPcs == {"main_582", "main_583"}

\* the positions of a list of devices that carry a boot order
BootOrdered(devices) == {i \in DOMAIN devices : devices[i].boot_order # 0}

\* C21: in the host record rendered at line 582 the first disk carries boot
\* order 1, the first NIC boot order 2, and no other disk or NIC carries one;
\* for an install-server or a gateway the first NIC is the first NIC of the
\* topology entry, and the public-network NIC comes last.
C21_BootOrder ==
    pc \in RenderPcs =>
        LET definition == hosts[hostname]
        IN  /\ meta.disks[1].boot_order = 1
            /\ meta.nics[1].boot_order = 2
            /\ BootOrdered(meta.disks) = {1}
            /\ BootOrdered(meta.nics) = {1}
            /\ meta.nics[1].ip = definition.nics[1].ip
            /\ definition.nics[1].mac # NoMac => meta.nics[1].mac = definition.nics[1].mac
            /\ definition.profile \in {"install-server", "gateway"} =>
                  /\ Len(meta.nics) = Len(definition.nics) + 1
                  /\ meta.nics[Len(meta.nics)].network_name = conf.public_network
                  /\ meta.nics[Len(meta.nics)].ip = ""
                  /\ meta.nics[1].ip # ""

\* the record of an install-server with two NICs and three disks is rendered
C21_Witness ==
    /\ pc = "main_582"
    /\ hosts[hostname].profile = "install-server"
    /\ Len(meta.nics) = 2
    /\ Len(meta.disks) = 3

-----------------------------------------------------------------------------
(* C22 *)

\* the BOOTPROTO line of the ifcfg file rendered for a registered NIC by
\* Host.user_data_template_string
IfcfgBootproto(nic) == IF nic.ip # "" THEN "none" ELSE "dhcp"

\* the 'bootproto' key of a registered NIC, "" when the entry has no such key
Bootproto(nic) == IF "bootproto" \in DOMAIN nic THEN nic.bootproto ELSE ""

\* the bootproto the claim gives a registered NIC
BootprotoAsClaimed(nic) == IF nic.ip = "" THEN "dhcp" ELSE "static"

\* C22: every registered NIC without ip carries bootproto "dhcp", every
\* registered NIC with ip carries bootproto "static", and the BOOTPROTO
\* written for the NIC into the seed image is that bootproto.
C22_NicDefaulting ==
    \A i \in DOMAIN meta.nics :
        /\ Bootproto(meta.nics[i]) = BootprotoAsClaimed(meta.nics[i])
        /\ IfcfgBootproto(meta.nics[i]) = Bootproto(meta.nics[i])

-----------------------------------------------------------------------------
(* C23 *)

\* the MAC of the i-th NIC registered for the host under construction was
\* drawn from random_mac(): a NIC of the topology entry without 'mac', or the
\* public-network NIC of a host whose first NIC has no 'mac' (line 545)
GeneratedMac(i) ==
    LET definition == hosts[hostname]
    IN  IF i <= Len(definition.nics) THEN definition.nics[i].mac = NoMac
        ELSE definition.nics[1].mac = NoMac

\* the MACs given in the topology are pairwise distinct
DistinctTopologyMacs ==
    \A h1, h2 \in DOMAIN hosts :
        \A i \in DOMAIN hosts[h1].nics, j \in DOMAIN hosts[h2].nics :
            (hosts[h1].nics[i].mac # NoMac /\ <<h1, i>> # <<h2, j>>)
                => hosts[h1].nics[i].mac # hosts[h2].nics[j].mac

\* C23: when the MACs given in the topology are pairwise distinct, no two
\* NICs registered for a host carry the same MAC, the public-network NIC
\* included; the MACs drawn from the generator, taken never to repeat, are
\* left aside.
C23_UniqueMacs ==
    (pc \in DiskListPcs /\ DistinctTopologyMacs) =>
        \A i, j \in DOMAIN meta.nics :
            (i # j /\ ~GeneratedMac(i) /\ ~GeneratedMac(j))
                => meta.nics[i].mac # meta.nics[j].mac

-----------------------------------------------------------------------------
(* C24 *)

\* C24: no domain definition is submitted under a name for which a domain is
\* still defined: when main is about to call defineXML at line 582 no domain
\* of that name exists, and no definition in the history was rejected for
\* meeting one.
C24_OldDefinitionRemoved ==
    /\ pc = "main_582" => domains[Namespaced(conf.prefix, hostname)] = Undefined
    /\ \A i \in DefineIdx : ops[i].rc = 0

-----------------------------------------------------------------------------
(* C25 *)

\* the MAC of the public-network NIC of the domain defined for the host the
\* record of get_profile_info names
DefinedPublicMac(info) == public_macs[Namespaced(conf.prefix, info.hostname)]

\* C25: while the run waits for the lease of the install-server, and while
\* it waits for the lease of the gateway, the MAC it queries is the MAC of
\* the public-network NIC of the domain defined under that host's name.
C25_LeaseMacIsDomainMac ==
    /\ (pc = "main_591" /\ HasProfile("install-server"))
          => install_server_info.mac = DefinedPublicMac(install_server_info)
    /\ (pc = "main_598" /\ HasProfile("gateway"))
          => gateway_info.mac = DefinedPublicMac(gateway_info)

-----------------------------------------------------------------------------
(* C26 *)

\* the record is the data of a host of the given profile: its hostname, the
\* MAC of its first NIC when the topology gives one, and its address
InfoOfProfile(info, profile) ==
    /\ info.hostname \in DOMAIN hosts
    /\ hosts[info.hostname].profile = profile
    /\ info.ip = hosts[info.hostname].nics[1].ip
    /\ hosts[info.hostname].nics[1].mac # NoMac
          => info.mac = hosts[info.hostname].nics[1].mac

\* C26: once the two calls of get_profile_info at lines 559-560 have
\* returned, install_server_info is the data of a host of profile
\* install-server and gateway_info the data of a host of profile gateway; in
\* a topology without such a host no record of another host is returned.
C26_ProfileInfo ==
    pc \notin {"main_559", "raised_542"} =>
        /\ InfoOfProfile(install_server_info, "install-server")
        /\ InfoOfProfile(gateway_info, "gateway")

-----------------------------------------------------------------------------
(* C27: termination of main, the interpreter running the program on and on *)

\* a step of main: the program is sequential and every call it makes blocks
\* until it returns, so that main goes on whenever it can take a step
main ==
    \/ main_get_profile_info
    \/ create_networks_list
    \/ create_networks_public
    \/ create_networks_activate
    \/ create_networks_destroy
    \/ create_networks_private
    \/ main_list_domains
    \/ main_next_host
    \/ main_replace_stop
    \/ main_replace_undefine
    \/ main_skip
    \/ host_init_nics
    \/ host_init_disk
    \/ host_init_cloud_init
    \/ main_define
    \/ main_start
    \/ main_wait_install_server
    \/ main_wait_gateway

\* first runs and re-runs, with and without --replace, of a topology of an
\* install-server and a gateway, on a hypervisor in any state
LiveInit ==
    /\ conf \in [replace : BOOLEAN, prefix : Prefixes, public_network : {<<"n", "a", "t">>}]
    /\ hosts = SizeTopology(Size10Gi)
    /\ networks \in [NetworkNames -> NetworkStates]
    /\ networks[conf.public_network] # "transient"
    /\ networks[PrivateNetName(conf.prefix)] # "active"
    /\ domains \in [DomainNames(hosts, conf.prefix) -> {Undefined} \cup DomainStates]
    /\ Cardinality({d \in DOMAIN domains : domains[d] # Undefined}) <= MaxExisting
    /\ public_macs \in [DOMAIN domains -> {NoMac} \cup MacPool]
    /\ \A h \in DOMAIN hosts :
          public_macs[Namespaced(conf.prefix, h)]
              \in EarlierPublicMacs(hosts[h], domains[Namespaced(conf.prefix, h)])
    /\ NotStarted

LiveSpec == LiveInit /\ [][Next]_vars /\ WF_vars(main)

\* the positions where a control-plane call has raised
CallFailedPcs == {"raised_120", "raised_121", "raised_130", "raised_136", "raised_582"}

\* the lease table holds a record of the MAC of each of the two waits
LeasesPresent ==
    /\ \E l \in leases : l.mac = install_server_info.mac
    /\ \E l \in leases : l.mac = gateway_info.mac

\* both lease waits have returned and main has ended
Terminated == pc = "done" /\ Len(ips) = 2

\* C27: if no external call fails and the lease table eventually and for
\* good holds a record of the install-server MAC and a record of the gateway
\* MAC the run waits on, the run eventually reaches the terminal state, both
\* lease waits having returned.
C27_Termination ==
    ([](pc \notin CallFailedPcs) /\ <>[]LeasesPresent) => <>Terminated

\* a re-run with --replace that removed an old domain has ended
C27_Witness ==
    /\ Terminated
    /\ conf.replace
    /\ existing_hosts # {}
    /\ \E i \in DOMAIN ops : ops[i].kind = "domain.undefine"

====
